---- MODULE Spec2Model ----
(***************************************************************************)
(* AssetGraphBuilder (packages/core/core/src/requests/AssetGraphRequest.js) *)
(* as a state machine.  One build() pass walks the asset graph from the    *)
(* root, dispatches one request per node that cannot be skipped, chains    *)
(* visitChildren after the request's queue unit settles, awaits the queue, *)
(* stores the result and returns or throws.                                *)
(*                                                                         *)
(* The asset graph (../AssetGraph), the promise queue (@parcel/utils) and  *)
(* the request tracker api (../RequestTracker) are not part of the source  *)
(* file; they are modelled after the specification's description of them.  *)
(***************************************************************************)
EXTENDS Integers, Sequences, FiniteSets, TLC

(* ---------------------------------------------------------------------- *)
(* Bounds and the world the builder runs in                               *)
(* ---------------------------------------------------------------------- *)

\* number of build() passes run one after the other on the same graph
MaxPasses == 2

\* concurrency limit of the task queue
MaxConcurrent == 2

\* calls of visit one synchronous run may make before it counts as running
\* without bound
MaxVisits == 15

Nodes == {"root", "E1", "F1", "D0", "G1", "A1", "D1", "D2", "G2", "A2", "D3", "G3", "A3"}

\* kind of every node of the world
NodeType ==
  [n \in Nodes |->
     CASE n = "root" -> "root"
       [] n = "E1" -> "entry_specifier"
       [] n = "F1" -> "entry_file"
       [] n \in {"D0", "D1", "D2", "D3"} -> "dependency"
       [] n \in {"G1", "G2", "G3"} -> "asset_group"
       [] OTHER -> "asset"]

\* what a node's sub-computation yields when it succeeds: the children the
\* resolution operation connects to the node.  G1 -> A1 -> D1 -> G2 -> A2 ->
\* D3 -> G1 is a cycle; G2 has the two parents D1 and D2.
Yield ==
  [n \in Nodes |->
     CASE n = "E1" -> <<"F1">>
       [] n = "F1" -> <<"D0">>
       [] n = "D0" -> <<"G1">>
       [] n = "G1" -> <<"A1">>
       [] n = "A1" -> <<"D1", "D2">>
       [] n = "D1" -> <<"G2">>
       [] n = "D2" -> <<"G2">>
       [] n = "G2" -> <<"A2">>
       [] n = "A2" -> <<"D3">>
       [] n = "D3" -> <<"G1">>
       [] n = "G3" -> <<"A3">>
       [] OTHER -> <<>>]

\* the inputs build() is run with: an entry list, seed asset groups, or a
\* graph that has no root node
Inputs == {"entries", "groups", "noroot"}

RootConnections(i) ==
  CASE i = "entries" -> <<"E1">>
    [] i = "groups" -> <<"G1", "G2", "G3">>
    [] OTHER -> <<>>

\* nodes whose sub-computation may fail, and nodes whose sub-computation may
\* yield nothing (an unresolved dependency, a transform without assets)
MayFail == {"E1", "F1", "D1", "G2"}
MayYieldNothing == {"D2", "G3"}

\* nodes that may carry a pending deferral, and edges the gate may refuse
DeferralCandidates == {"G2"}
GateCandidates == {<<"D1", "G2">>}

\* nodes the environment may invalidate between two passes
InvalidateCandidates == {"G1", "D1", "G2"}

SeqToSet(s) == {s[i] : i \in 1..Len(s)}

typesWithRequests == {"entry_specifier", "entry_file", "dependency", "asset_group"}

VARIABLES
  input,          \* the input of every pass (entries / assetGroups)
  edges,          \* assetGraph: node -> sequence of connected nodes
  complete,       \* assetGraph: nodes with complete === true
  corrReq,        \* assetGraph: nodes with correspondingRequest != null
  hasDeferred,    \* assetGraph: nodes with hasDeferred
  gated,          \* assetGraph: edges shouldVisitChild refuses
  valid,          \* api: request ids canSkipSubrequest reports valid
  outcome,        \* api: what runRequest yields for a node's request
  pc,             \* position of build(): idle, constructed, draining,
                  \* returned, failed; diverged when visit never returns
  pass,           \* number of the current pass
  visited,        \* build: visited
  errors,         \* build: errors (the failed nodes, in push order)
  changedAssets,  \* this.changedAssets (asset ids)
  assetRequests,  \* this.assetRequests
  units,          \* every request dispatched in this pass
  queue,          \* this.queue: units submitted and not started
  stored,         \* api.storeResult calls of this pass
  result,         \* what build() returned or threw
  complete0,      \* the nodes complete when the pass began
  foldedLate,     \* whether a result was folded after an error was pushed
  prev,           \* how the previous pass ended
  changed         \* whether the environment changed anything since it ended

vars == <<input, edges, complete, corrReq, hasDeferred, gated, valid, outcome,
          pc, pass, visited, errors, changedAssets, assetRequests, units,
          queue, stored, result, complete0, foldedLate, prev, changed>>

Init ==
  /\ input \in Inputs
  /\ edges = [n \in Nodes |-> <<>>]
  /\ complete = {}
  /\ corrReq = {}
  /\ hasDeferred \in SUBSET DeferralCandidates
  /\ gated \in SUBSET GateCandidates
  /\ valid = {}
  /\ outcome = [n \in Nodes |-> "none"]
  /\ pc = "idle"
  /\ pass = 1
  /\ visited = {}
  /\ errors = <<>>
  /\ changedAssets = {}
  /\ assetRequests = <<>>
  /\ units = <<>>
  /\ queue = <<>>
  /\ stored = <<>>
  /\ result = [kind |-> "none"]
  /\ complete0 = {}
  /\ foldedLate = FALSE
  /\ prev = [ended |-> "none", changed |-> FALSE]
  /\ changed = FALSE

(* ---------------------------------------------------------------------- *)
(* Collaborators                                                          *)
(* ---------------------------------------------------------------------- *)

\* assetGraph.getRootNode()
getRootNode == IF input = "noroot" THEN "null" ELSE "root"

\* assetGraph.getNodesConnectedFrom(node)
getNodesConnectedFrom(n) == edges[n]

\* assetGraph.shouldVisitChild(node, child)
shouldVisitChild(n, c) == <<n, c>> \notin gated

\* api.canSkipSubrequest(requestId)
canSkipSubrequest(n) == n \in valid

\* the queue's number of running units
numRunning ==
  Cardinality({u \in 1..Len(units) : units[u].q \in {"started", "handled", "continued"}})

(* ---------------------------------------------------------------------- *)
(* shouldSkipRequest, visit, visitChildren                                *)
(* ---------------------------------------------------------------------- *)

shouldSkipRequestAnyType(n) ==
  \/ n \in complete
  \/ (n \in corrReq /\ canSkipSubrequest(n))

shouldSkipRequest(n) ==
  \/ n \in complete
  \/ NodeType[n] \notin typesWithRequests
  \/ (n \in corrReq /\ canSkipSubrequest(n))

RECURSIVE visit(_, _), visitBody(_, _), visitChildren(_, _), visitEach(_, _, _)

\* st = [visited, disp, fuel]: the visited set, the nodes dispatched so far
\* by this synchronous run, and the calls of visit it may still make
visitIgnoringErrors(n, st) ==
  IF shouldSkipRequest(n) THEN visitChildren(n, st)
  ELSE [st EXCEPT !.disp = Append(@, n)]

visitBody(n, st) ==
  IF errors # <<>> THEN st
  ELSE IF shouldSkipRequest(n) THEN visitChildren(n, st)
  ELSE [st EXCEPT !.disp = Append(@, n)]

visit(n, st) ==
  IF st.fuel = 0 THEN st
  ELSE visitBody(n, [st EXCEPT !.fuel = @ - 1])

\* the for loop of visitChildren over the remaining children
visitEachAgain(n, kids, st) ==
  IF kids = <<>> THEN st
  ELSE LET child == Head(kids)
           st1 == IF shouldVisitChild(n, child)
                  THEN visit(child, [st EXCEPT !.visited = @ \cup {child}])
                  ELSE st
       IN IF st.fuel = 0 THEN st ELSE visitEach(n, Tail(kids), st1)

\* the loop with visited.add(child.id) made before the gate is asked
visitEachMarkingRefused(n, kids, st) ==
  IF kids = <<>> THEN st
  ELSE LET child == Head(kids)
           marked == [st EXCEPT !.visited = @ \cup {child}]
           st1 == IF child \notin st.visited \/ child \in hasDeferred
                  THEN IF shouldVisitChild(n, child) THEN visit(child, marked) ELSE marked
                  ELSE st
       IN IF st.fuel = 0 THEN st ELSE visitEach(n, Tail(kids), st1)

visitEach(n, kids, st) ==
  IF kids = <<>> THEN st
  ELSE LET child == Head(kids)
           st1 == IF (child \notin st.visited \/ child \in hasDeferred)
                      /\ shouldVisitChild(n, child)
                  THEN visit(child, [st EXCEPT !.visited = @ \cup {child}])
                  ELSE st
       IN IF st.fuel = 0 THEN st ELSE visitEach(n, Tail(kids), st1)

visitChildren(n, st) == visitEach(n, getNodesConnectedFrom(n), st)

(* ---------------------------------------------------------------------- *)
(* Dispatch                                                               *)
(* ---------------------------------------------------------------------- *)

\* the unit queueCorrespondingRequest creates for a node: the run*Request
\* call has started the request (req) and queue.add has submitted the unit
\* (q); `by` is the unit whose continuation dispatched it, 0 for build itself
queueCorrespondingRequest(n, by) ==
  [node |-> n,
   req |-> IF NodeType[n] \in typesWithRequests THEN "inflight" ELSE "threw",
   q |-> "queued",
   by |-> by]

\* the units of a synchronous run's dispatches, in dispatch order
dispatched(disp, by) ==
  [i \in 1..Len(disp) |-> queueCorrespondingRequest(disp[i], by)]

\* the push made for every dispatched node, whatever its kind
pushEveryRequest(disp) == disp

\* runAssetRequest before its await: this.assetRequests.push(input)
pushAssetRequests(disp) ==
  SelectSeq(disp, LAMBDA n : NodeType[n] = "asset_group")

\* the queue starts the first k of the units ids
RECURSIVE startUnits(_, _, _)
startUnits(us, ids, k) ==
  IF k = 0 \/ ids = <<>> THEN us
  ELSE startUnits([us EXCEPT ![Head(ids)].q = "started"], Tail(ids), k - 1)

Min(a, b) == IF a < b THEN a ELSE b

\* the ids left waiting when the queue has started the first k
RECURSIVE dropFirst(_, _)
dropFirst(ids, k) ==
  IF k = 0 \/ ids = <<>> THEN ids ELSE dropFirst(Tail(ids), k - 1)

(* ---------------------------------------------------------------------- *)
(* The builder                                                            *)
(* ---------------------------------------------------------------------- *)

\* changedAssets: Map<string, Asset> = new Map()
carriedChangedAssets == changedAssets

initialChangedAssets == {}

\* new AssetGraphBuilder(input) that always starts from new AssetGraph(),
\* whatever the previous result holds
constructNewGraph ==
  /\ \/ pc = "idle"
     \/ pc \in {"returned", "failed"} /\ pass < MaxPasses
  /\ pass' = IF pc = "idle" THEN pass ELSE pass + 1
  /\ prev' = [ended |-> IF pc = "idle" THEN "none" ELSE pc, changed |-> changed]
  /\ changed' = FALSE
  /\ edges' = [n \in Nodes |->
                 IF n = "root" /\ input # "noroot" THEN RootConnections(input) ELSE <<>>]
  /\ complete' = {}
  /\ corrReq' = {}
  /\ changedAssets' = initialChangedAssets
  /\ assetRequests' = <<>>
  /\ queue' = <<>>
  /\ units' = <<>>
  /\ visited' = {}
  /\ errors' = <<>>
  /\ stored' = <<>>
  /\ result' = [kind |-> "none"]
  /\ complete0' = {}
  /\ foldedLate' = FALSE
  /\ pc' = "constructed"
  /\ UNCHANGED <<input, hasDeferred, gated, valid, outcome>>

\* new AssetGraphBuilder(input): the graph of the previous result (or a new
\* one) gets its root connections, the pass's collections start empty
construct ==
  /\ \/ pc = "idle"
     \/ pc \in {"returned", "failed"} /\ pass < MaxPasses
  /\ pass' = IF pc = "idle" THEN pass ELSE pass + 1
  /\ prev' = [ended |-> IF pc = "idle" THEN "none" ELSE pc, changed |-> changed]
  /\ changed' = FALSE
  /\ edges' = IF input = "noroot" THEN edges
              ELSE [edges EXCEPT !["root"] = RootConnections(input)]
  /\ changedAssets' = initialChangedAssets
  /\ assetRequests' = <<>>
  /\ queue' = <<>>
  /\ units' = <<>>
  /\ visited' = {}
  /\ errors' = <<>>
  /\ stored' = <<>>
  /\ result' = [kind |-> "none"]
  /\ complete0' = complete
  /\ foldedLate' = FALSE
  /\ pc' = "constructed"
  /\ UNCHANGED <<input, complete, corrReq, hasDeferred, gated, valid, outcome>>

\* build() that finds the root missing only after it has stored the result
buildNoRootAfterCommit ==
  /\ pc = "constructed"
  /\ getRootNode = "null"
  /\ pc' = "failed"
  /\ result' = [kind |-> "threw", error |-> "A root node is required to traverse"]
  /\ stored' = Append(stored, [assetGraph |-> "assetGraph", changedAssets |-> {},
                               assetRequests |-> <<>>])
  /\ UNCHANGED <<changed, input, edges, complete, corrReq, hasDeferred, gated, valid, outcome,
                 pass, visited, errors, changedAssets, assetRequests, units, queue,
                 complete0, foldedLate, prev>>

\* build() without a root node: throws at once
buildNoRoot ==
  /\ pc = "constructed"
  /\ getRootNode = "null"
  /\ pc' = "failed"
  /\ result' = [kind |-> "threw", error |-> "A root node is required to traverse"]
  /\ UNCHANGED <<changed, input, edges, complete, corrReq, hasDeferred, gated, valid, outcome,
                 pass, visited, errors, changedAssets, assetRequests, units, queue,
                 stored, complete0, foldedLate, prev>>

\* build() up to `await this.queue.run()`: visit(root), then run() starts as
\* many submitted units as the queue allows
build ==
  /\ pc = "constructed"
  /\ getRootNode # "null"
  /\ LET st == visit(getRootNode, [visited |-> {getRootNode}, disp |-> <<>>,
                                  fuel |-> MaxVisits])
         us == dispatched(st.disp, 0)
         ids == [i \in 1..Len(us) |-> i]
         k == Min(MaxConcurrent, Len(us))
     IN /\ visited' = st.visited
        /\ assetRequests' = assetRequests \o pushAssetRequests(st.disp)
        /\ units' = startUnits(us, ids, k)
        /\ queue' = dropFirst(ids, k)
        /\ pc' = IF st.fuel = 0 THEN "diverged" ELSE "draining"
  /\ errors' = <<>>
  /\ UNCHANGED <<input, edges, complete, corrReq, hasDeferred, gated, valid, outcome,
                 pass, changedAssets, stored, result, complete0, foldedLate, prev, changed>>

\* what api.runRequest may yield for node n's request
Outcomes(n) ==
  IF outcome[n] # "none" THEN {outcome[n]}
  ELSE {"ok"} \cup (IF n \in MayFail THEN {"fail"} ELSE {})
              \cup (IF n \in MayYieldNothing THEN {"null"} ELSE {})

\* assetGraph.resolveEntry / resolveTargets / resolveDependency: the node is
\* connected to what was found, marked complete, and records its request
resolveEntry(n, found) ==
  /\ edges' = [edges EXCEPT ![n] = found]
  /\ complete' = complete \cup {n}
  /\ corrReq' = corrReq \cup {n}

resolveTargets(n, found) ==
  /\ edges' = [edges EXCEPT ![n] = found]
  /\ complete' = complete \cup {n}
  /\ corrReq' = corrReq \cup {n}

resolveDependency(n, found) ==
  /\ edges' = [edges EXCEPT ![n] = found]
  /\ complete' = complete \cup {n}
  /\ corrReq' = corrReq \cup {n}

\* assetGraph.resolveAssetGroup: the group is connected to its assets and
\* every asset to the dependencies it declares
resolveAssetGroup(n, assets) ==
  /\ edges' = [m \in Nodes |->
                 IF m = n THEN assets
                 ELSE IF m \in SeqToSet(assets) THEN Yield[m]
                 ELSE edges[m]]
  /\ complete' = complete \cup {n}
  /\ corrReq' = corrReq \cup {n}

\* the request of unit u is in flight and its node has kind t
awaiting(u, t) ==
  /\ pc = "draining"
  /\ u \in 1..Len(units)
  /\ units[u].req = "inflight"
  /\ NodeType[units[u].node] = t

\* what every run*Request leaves alone
settleFrame ==
  /\ foldedLate' = (foldedLate \/ (errors # <<>> /\ complete' # complete))
  /\ UNCHANGED <<input, hasDeferred, gated, pc, pass, visited, errors, assetRequests,
                 queue, stored, result, complete0, prev, changed>>

\* runEntryRequest after its await
runEntryRequest(u) ==
  /\ awaiting(u, "entry_specifier")
  /\ LET n == units[u].node IN
     \E o \in Outcomes(n) :
       /\ outcome' = [outcome EXCEPT ![n] = o]
       /\ IF o = "fail"
          THEN /\ units' = [units EXCEPT ![u].req = "rejected"]
               /\ UNCHANGED <<edges, complete, corrReq, valid>>
          ELSE /\ resolveEntry(n, Yield[n])
               /\ valid' = valid \cup {n}
               /\ units' = [units EXCEPT ![u].req = "resolved"]
  /\ UNCHANGED changedAssets
  /\ settleFrame

\* runTargetRequest after its await
runTargetRequest(u) ==
  /\ awaiting(u, "entry_file")
  /\ LET n == units[u].node IN
     \E o \in Outcomes(n) :
       /\ outcome' = [outcome EXCEPT ![n] = o]
       /\ IF o = "fail"
          THEN /\ units' = [units EXCEPT ![u].req = "rejected"]
               /\ UNCHANGED <<edges, complete, corrReq, valid>>
          ELSE /\ resolveTargets(n, Yield[n])
               /\ valid' = valid \cup {n}
               /\ units' = [units EXCEPT ![u].req = "resolved"]
  /\ UNCHANGED changedAssets
  /\ settleFrame

\* runPathRequest with resolveDependency also called when the request failed
runPathRequestAlwaysResolving(u) ==
  /\ awaiting(u, "dependency")
  /\ LET n == units[u].node IN
     \E o \in Outcomes(n) :
       /\ outcome' = [outcome EXCEPT ![n] = o]
       /\ resolveDependency(n, IF o = "ok" THEN Yield[n] ELSE <<>>)
       /\ IF o = "fail"
          THEN /\ units' = [units EXCEPT ![u].req = "rejected"]
               /\ UNCHANGED valid
          ELSE /\ valid' = valid \cup {n}
               /\ units' = [units EXCEPT ![u].req = "resolved"]
  /\ UNCHANGED changedAssets
  /\ settleFrame

\* runPathRequest that rejects when path resolution finds nothing
runPathRequestRejectingAbsent(u) ==
  /\ awaiting(u, "dependency")
  /\ LET n == units[u].node IN
     \E o \in Outcomes(n) :
       /\ outcome' = [outcome EXCEPT ![n] = o]
       /\ IF o \in {"fail", "null"}
          THEN /\ units' = [units EXCEPT ![u].req = "rejected"]
               /\ UNCHANGED <<edges, complete, corrReq, valid>>
          ELSE /\ resolveDependency(n, Yield[n])
               /\ valid' = valid \cup {n}
               /\ units' = [units EXCEPT ![u].req = "resolved"]
  /\ UNCHANGED changedAssets
  /\ settleFrame

\* runPathRequest after its await: resolveDependency is called with the
\* asset group found, or with nothing when the dependency is unresolved
runPathRequest(u) ==
  /\ awaiting(u, "dependency")
  /\ LET n == units[u].node IN
     \E o \in Outcomes(n) :
       /\ outcome' = [outcome EXCEPT ![n] = o]
       /\ IF o = "fail"
          THEN /\ units' = [units EXCEPT ![u].req = "rejected"]
               /\ UNCHANGED <<edges, complete, corrReq, valid>>
          ELSE /\ resolveDependency(n, IF o = "null" THEN <<>> ELSE Yield[n])
               /\ valid' = valid \cup {n}
               /\ units' = [units EXCEPT ![u].req = "resolved"]
  /\ UNCHANGED changedAssets
  /\ settleFrame

\* runAssetRequest without the loop of this.changedAssets.set(asset.id, asset)
runAssetRequestNotRecording(u) ==
  /\ awaiting(u, "asset_group")
  /\ LET n == units[u].node IN
     \E o \in Outcomes(n) :
       /\ outcome' = [outcome EXCEPT ![n] = o]
       /\ CASE o = "fail" ->
                 /\ units' = [units EXCEPT ![u].req = "rejected"]
                 /\ UNCHANGED <<edges, complete, corrReq, valid, changedAssets>>
            [] o = "null" ->
                 /\ units' = [units EXCEPT ![u].req = "resolved"]
                 /\ valid' = valid \cup {n}
                 /\ UNCHANGED <<edges, complete, corrReq, changedAssets>>
            [] OTHER ->
                 /\ UNCHANGED changedAssets
                 /\ resolveAssetGroup(n, Yield[n])
                 /\ valid' = valid \cup {n}
                 /\ units' = [units EXCEPT ![u].req = "resolved"]
  /\ settleFrame

\* runAssetRequest after its await: with assets, they are recorded in
\* changedAssets and folded into the graph; without (null), nothing is done
runAssetRequest(u) ==
  /\ awaiting(u, "asset_group")
  /\ LET n == units[u].node IN
     \E o \in Outcomes(n) :
       /\ outcome' = [outcome EXCEPT ![n] = o]
       /\ CASE o = "fail" ->
                 /\ units' = [units EXCEPT ![u].req = "rejected"]
                 /\ UNCHANGED <<edges, complete, corrReq, valid, changedAssets>>
            [] o = "null" ->
                 /\ units' = [units EXCEPT ![u].req = "resolved"]
                 /\ valid' = valid \cup {n}
                 /\ UNCHANGED <<edges, complete, corrReq, changedAssets>>
            [] OTHER ->
                 /\ changedAssets' = changedAssets \cup SeqToSet(Yield[n])
                 /\ resolveAssetGroup(n, Yield[n])
                 /\ valid' = valid \cup {n}
                 /\ units' = [units EXCEPT ![u].req = "resolved"]
  /\ settleFrame

\* the unit the queue runs, () => promise.then(null, error => errors.push(error)),
\* settles; were the rejection propagated instead of pushed, build would
\* fail at once
unitSettlesPropagating(u) ==
  /\ pc = "draining"
  /\ u \in 1..Len(units)
  /\ units[u].q = "started"
  /\ units[u].req \in {"resolved", "rejected"}
  /\ errors' = IF units[u].req = "rejected" THEN Append(errors, units[u].node) ELSE errors
  /\ units' = [units EXCEPT ![u].q = "handled"]
  /\ IF units[u].req = "rejected"
     THEN /\ pc' = "failed"
          /\ result' = [kind |-> "threw", error |-> units[u].node]
          /\ stored' = Append(stored, [assetGraph |-> "assetGraph",
                                       changedAssets |-> {}, assetRequests |-> <<>>])
     ELSE UNCHANGED <<pc, result, stored>>
  /\ UNCHANGED <<input, edges, complete, corrReq, hasDeferred, gated, valid, outcome,
                 pass, visited, changedAssets, assetRequests, queue,
                 complete0, foldedLate, prev, changed>>

\* the unit the queue runs, () => promise.then(null, error => errors.push(error)),
\* settles: a rejection is pushed to errors, and the promise queue.add
\* returned resolves
unitSettles(u) ==
  /\ pc = "draining"
  /\ u \in 1..Len(units)
  /\ units[u].q = "started"
  /\ units[u].req \in {"resolved", "rejected"}
  /\ errors' = IF units[u].req = "rejected" THEN Append(errors, units[u].node) ELSE errors
  /\ units' = [units EXCEPT ![u].q = "handled"]
  /\ UNCHANGED <<input, edges, complete, corrReq, hasDeferred, gated, valid, outcome,
                 pc, pass, visited, changedAssets, assetRequests, queue, stored,
                 result, complete0, foldedLate, prev, changed>>

\* whether the continuation of unit u may run: it is chained on the promise
\* queue.add returned
notChained(u) == units[u].q \in {"started", "handled"}

settled(u) == units[u].q = "handled"

\* .then(() => visitChildren(node)): the continuation chained on the unit's
\* promise; what it dispatches is submitted to the queue, which starts it at
\* once while it has room
thenVisitChildren(u) ==
  /\ pc = "draining"
  /\ u \in 1..Len(units)
  /\ units[u].q \notin {"continued", "done"}
  /\ settled(u)
  /\ LET st == visitChildren(units[u].node, [visited |-> visited, disp |-> <<>>,
                                              fuel |-> MaxVisits])
         base == [units EXCEPT ![u].q = "continued"]
         us == base \o dispatched(st.disp, u)
         ids == queue \o [i \in 1..Len(st.disp) |-> Len(units) + i]
         k == IF numRunning > 0 /\ numRunning < MaxConcurrent
              THEN Min(MaxConcurrent - numRunning, Len(ids)) ELSE 0
     IN /\ visited' = st.visited
        /\ assetRequests' = assetRequests \o pushAssetRequests(st.disp)
        /\ units' = startUnits(us, ids, k)
        /\ queue' = dropFirst(ids, k)
        /\ pc' = IF st.fuel = 0 THEN "diverged" ELSE pc
  /\ UNCHANGED <<input, edges, complete, corrReq, hasDeferred, gated, valid, outcome,
                 pass, errors, changedAssets, stored, result, complete0, foldedLate, prev,
                 changed>>

\* the queue is done with unit u and starts the next waiting unit
queueNext(u) ==
  /\ pc = "draining"
  /\ u \in 1..Len(units)
  /\ units[u].q = "continued"
  /\ LET base == [units EXCEPT ![u].q = "done"]
         k == Min(1, Len(queue))
     IN /\ units' = startUnits(base, queue, k)
        /\ queue' = dropFirst(queue, k)
  /\ UNCHANGED <<input, edges, complete, corrReq, hasDeferred, gated, valid, outcome,
                 pc, pass, visited, errors, changedAssets, assetRequests, stored,
                 result, complete0, foldedLate, prev, changed>>

\* queue.run() resolves: nothing waits and nothing runs
drained == queue = <<>> /\ numRunning = 0

\* await this.queue.run()
notAwaited == TRUE

awaitQueueRun == drained

\* this.api.storeResult({assetGraph, changedAssets: new Map(), assetRequests: []}, cacheKey)
storeAccumulated ==
  stored' = Append(stored, [assetGraph |-> "assetGraph", changedAssets |-> changedAssets,
                            assetRequests |-> assetRequests])

storeResult ==
  stored' = Append(stored, [assetGraph |-> "assetGraph", changedAssets |-> {},
                            assetRequests |-> <<>>])

\* throw errors[0]
lastError == errors[Len(errors)]

thrownError == errors[1]

\* build() after `await this.queue.run()`: storeResult, then throw errors[0]
\* or return the pass result
buildAfterDrain ==
  /\ pc = "draining"
  /\ awaitQueueRun
  /\ storeResult
  /\ IF Len(errors) > 0
     THEN /\ pc' = "failed"
          /\ result' = [kind |-> "threw", error |-> thrownError]
     ELSE /\ pc' = "returned"
          /\ result' = [kind |-> "returned", assetGraph |-> "assetGraph",
                        changedAssets |-> changedAssets,
                        assetRequests |-> assetRequests]
  /\ UNCHANGED <<changed, input, edges, complete, corrReq, hasDeferred, gated, valid, outcome,
                 pass, visited, errors, changedAssets, assetRequests, units, queue,
                 complete0, foldedLate, prev>>

\* between two passes one source file changes: its node is no longer
\* complete, and the cache may or may not still hold a valid result for its
\* request
invalidate(n, expire) ==
  /\ pc \in {"returned", "failed"}
  /\ pass < MaxPasses
  /\ ~changed
  /\ n \in complete
  /\ complete' = complete \ {n}
  /\ valid' = IF expire THEN valid \ {n} ELSE valid
  /\ outcome' = IF expire THEN [outcome EXCEPT ![n] = "none"] ELSE outcome
  /\ changed' = TRUE
  /\ UNCHANGED <<input, edges, corrReq, hasDeferred, gated, pc, pass, visited, errors,
                 changedAssets, assetRequests, units, queue, stored, result,
                 complete0, foldedLate, prev>>

Next ==
  \/ construct
  \/ buildNoRoot
  \/ build
  \/ \E u \in 1..Len(units) : runEntryRequest(u)
  \/ \E u \in 1..Len(units) : runTargetRequest(u)
  \/ \E u \in 1..Len(units) : runPathRequest(u)
  \/ \E u \in 1..Len(units) : runAssetRequest(u)
  \/ \E u \in 1..Len(units) : unitSettles(u)
  \/ \E u \in 1..Len(units) : thenVisitChildren(u)
  \/ \E u \in 1..Len(units) : queueNext(u)
  \/ buildAfterDrain
  \/ \E n \in InvalidateCandidates, expire \in BOOLEAN : invalidate(n, expire)

Spec == Init /\ [][Next]_vars

\* one pass on its own: the steps from construction to the end of build()
PassNext ==
  \/ pc = "idle" /\ construct
  \/ buildNoRoot
  \/ build
  \/ \E u \in 1..Len(units) : runEntryRequest(u)
  \/ \E u \in 1..Len(units) : runTargetRequest(u)
  \/ \E u \in 1..Len(units) : runPathRequest(u)
  \/ \E u \in 1..Len(units) : runAssetRequest(u)
  \/ \E u \in 1..Len(units) : unitSettles(u)
  \/ \E u \in 1..Len(units) : thenVisitChildren(u)
  \/ \E u \in 1..Len(units) : queueNext(u)
  \/ buildAfterDrain

\* every dispatched request eventually settles and the event loop runs a
\* callback that is ready: some step is taken whenever one can be
Fairness == WF_vars(PassNext)

\* the graph a successful pass over the entry list leaves behind, with at
\* most one node invalidated since: the pass that follows walks the cycle
\* through nodes it skips
WarmInit ==
  /\ input = "entries"
  /\ edges = [n \in Nodes |->
                IF n = "root" THEN RootConnections("entries")
                ELSE IF n \in {"G3", "A3"} THEN <<>> ELSE Yield[n]]
  /\ \E x \in SUBSET InvalidateCandidates :
       /\ Cardinality(x) <= 1
       /\ complete = {"E1", "F1", "D0", "G1", "D1", "D2", "G2", "D3"} \ x
       /\ valid = {"E1", "F1", "D0", "G1", "D1", "D2", "G2", "D3"} \ x
       /\ outcome = [n \in Nodes |->
                       IF n \in {"E1", "F1", "D0", "G1", "D1", "D2", "G2", "D3"} \ x
                       THEN "ok" ELSE "none"]
  /\ corrReq = {"E1", "F1", "D0", "G1", "D1", "D2", "G2", "D3"}
  /\ hasDeferred \in SUBSET DeferralCandidates
  /\ gated = {}
  /\ pc = "idle"
  /\ pass = 1
  /\ visited = {}
  /\ errors = <<>>
  /\ changedAssets = {}
  /\ assetRequests = <<>>
  /\ units = <<>>
  /\ queue = <<>>
  /\ stored = <<>>
  /\ result = [kind |-> "none"]
  /\ complete0 = {}
  /\ foldedLate = FALSE
  /\ prev = [ended |-> "none", changed |-> FALSE]
  /\ changed = FALSE

LiveSpec == (Init \/ WarmInit) /\ [][PassNext]_vars /\ Fairness

(* ---------------------------------------------------------------------- *)
(* Properties                                                             *)
(* ---------------------------------------------------------------------- *)

Units == 1..Len(units)

rooted == input # "noroot"

\* build() has returned or thrown after walking a graph that has a root, and
\* nothing has touched the graph since
finished == rooted /\ pc \in {"returned", "failed"} /\ ~changed

\* the request of unit u has settled
requestSettled(u) == units[u].req \in {"resolved", "rejected"}

\* the resolution operation of node n has been applied with its result
folded(n) == n \in complete /\ n \in corrReq /\ edges[n] = Yield[n]

\* the units a step has added
NewUnits == (Len(units) + 1)..Len(units')

\* the skip predicate as the truth table states it
SkipTable(n) ==
  \/ n \in complete
  \/ NodeType[n] \notin {"entry_specifier", "entry_file", "dependency", "asset_group"}
  \/ (n \in corrReq /\ n \in valid)

\* C1: the continuation (visitChildren) of a dispatched node has run only if
\* the node's request has settled, with its resolution applied or its failure
\* pushed to errors; and a unit dispatched by a continuation has a parent
\* whose continuation has run, so it never precedes its parent's resolution.
C1_ParentBeforeChildren ==
  ~changed => \A u \in Units :
    /\ units[u].q \in {"continued", "done"} =>
         /\ requestSettled(u)
         /\ units[u].req = "rejected" => units[u].node \in SeqToSet(errors)
         /\ (units[u].req = "resolved" /\ outcome[units[u].node] = "ok") =>
              folded(units[u].node)
    /\ units[u].by # 0 =>
         /\ units[u].by < u
         /\ units[units[u].by].q \in {"continued", "done"}

\* a request dispatched by the continuation of a resolved parent is in flight
C1_Witness ==
  \E u \in Units :
    /\ units[u].by # 0
    /\ units[u].req = "inflight"
    /\ units[units[u].by].req = "resolved"
    /\ units[u].node \in SeqToSet(edges[units[units[u].by].node])

WarmReached ==
  /\ pc \in {"returned", "failed"}
  /\ input = "entries"
  /\ edges = [n \in Nodes |->
                IF n = "root" THEN RootConnections("entries")
                ELSE IF n \in {"G3", "A3"} THEN <<>> ELSE Yield[n]]
  /\ complete = {"E1", "F1", "D0", "G1", "D2", "G2", "D3"}
  /\ valid = {"E1", "F1", "D0", "G1", "D2", "G2", "D3"}
  /\ corrReq = {"E1", "F1", "D0", "G1", "D1", "D2", "G2", "D3"}
  /\ outcome["D1"] = "none"
  /\ gated = {}

\* C3: when build() has returned or thrown, the queue is empty, every request
\* dispatched in the pass has settled and every continuation has run.
C3_DrainComplete ==
  finished =>
    /\ queue = <<>>
    /\ \A u \in Units : requestSettled(u) /\ units[u].q = "done"

\* build() is over after a continuation dispatched a request whose own
\* continuation dispatched another one
C3_Witness ==
  /\ finished
  /\ \E u \in Units : units[u].by # 0 /\ units[units[u].by].by # 0

\* C4: once an error is in errors no request is dispatched any more; a request
\* that settles successfully after that is still folded into the graph; and
\* no request is left in flight when the pass has failed.
C4_ErrorHaltsScheduling ==
  /\ [][(errors # <<>> /\ errors' # <<>>) => Len(units') = Len(units)]_vars
  /\ [][\A u \in Units :
          (/\ errors # <<>>
           /\ u <= Len(units')
           /\ units[u].req = "inflight"
           /\ units'[u].req = "resolved"
           /\ outcome'[units[u].node] = "ok") =>
             /\ units[u].node \in complete'
             /\ edges'[units[u].node] = Yield[units[u].node]
             /\ NodeType[units[u].node] = "asset_group" =>
                  SeqToSet(Yield[units[u].node]) \subseteq changedAssets']_vars
  /\ [](pc = "failed" => \A u \in Units : units[u].req # "inflight")

\* the pass failed and a result was folded after the error had been pushed
C4_Witness == pc = "failed" /\ rooted /\ foldedLate

\* C5: a pass in which requests failed throws exactly errors[0] and returns
\* nothing; a pass in which none failed returns the graph with the
\* accumulated changedAssets and assetRequests.
C5_FirstErrorWins ==
  /\ (pc = "failed" /\ rooted) =>
       /\ errors # <<>>
       /\ result = [kind |-> "threw", error |-> errors[1]]
  /\ pc = "returned" =>
       /\ errors = <<>>
       /\ result = [kind |-> "returned", assetGraph |-> "assetGraph",
                    changedAssets |-> changedAssets, assetRequests |-> assetRequests]
  /\ finished => ((\E u \in Units : units[u].req = "rejected") <=> pc = "failed")

\* two different requests failed and the pass threw the first
C5_Witness ==
  /\ pc = "failed"
  /\ Len(errors) >= 2
  /\ errors[1] # errors[2]

\* the asset groups build() dispatched from the root
SiblingUnits == {u \in Units : units[u].by = 0 /\ NodeType[units[u].node] = "asset_group"}

\* C6: when sibling asset groups were dispatched from the root and the pass
\* is over, every sibling's request has settled, every sibling that produced
\* assets has them in changedAssets and in the graph, and if a sibling failed
\* the pass failed with the error of a failed request (with the sibling's own
\* error when it is the only failure).
C6_SiblingIsolation ==
  (finished /\ input = "groups") =>
    /\ \A u \in SiblingUnits :
         /\ requestSettled(u)
         /\ outcome[units[u].node] = "ok" =>
              /\ SeqToSet(Yield[units[u].node]) \subseteq changedAssets
              /\ folded(units[u].node)
    /\ \A u \in SiblingUnits :
         units[u].req = "rejected" =>
           /\ pc = "failed"
           /\ \E v \in Units : units[v].req = "rejected" /\ result.error = units[v].node
           /\ (\A v \in Units : units[v].req = "rejected" => v = u) =>
                result.error = units[u].node

\* of three siblings the second failed, the other two folded their assets
C6_Witness ==
  /\ pc = "failed"
  /\ input = "groups"
  /\ Cardinality(SiblingUnits) = 3
  /\ outcome["G2"] = "fail"
  /\ {"A1", "A3"} \subseteq changedAssets
  /\ folded("G1") /\ folded("G3")
  /\ result.error = "G2"

\* C7: while no error is recorded, a node that visit reaches for the first
\* time gets a request exactly when the truth table does not skip it; a node
\* of a kind without requests is never dispatched.
C7_SkipPredicate ==
  /\ [][(errors = <<>> /\ pc \in {"constructed", "draining"} /\ pc' # "diverged") =>
          \A n \in visited' \ visited :
            (\E u \in NewUnits : units'[u].node = n) <=> ~SkipTable(n)]_vars
  /\ [](\A u \in Units : NodeType[units[u].node] \in typesWithRequests
                         /\ units[u].req # "threw")

\* C7 as stated, for every node passed to visit whether or not an error has
\* been recorded: a request is dispatched exactly when the truth table does
\* not skip the node.
C7_DispatchIffNotSkipped ==
  [][(pc \in {"constructed", "draining"} /\ pc' # "diverged") =>
       \A n \in visited' \ visited :
         (\E u \in NewUnits : units'[u].node = n) <=> ~SkipTable(n)]_vars

\* in one pass a node was skipped on its valid cached request alone, another
\* was dispatched although it had a request, and a complete one was skipped
C7_Witness ==
  /\ \E n \in visited :
       /\ n \notin complete /\ n \in corrReq /\ n \in valid
       /\ NodeType[n] \in typesWithRequests
       /\ \A u \in Units : units[u].node # n
  /\ \E n \in visited : n \in complete0 /\ \A u \in Units : units[u].node # n
  /\ \E u \in Units : units[u].node \notin corrReq
  /\ \E n \in visited : NodeType[n] = "asset"

\* C8: a pass starts with empty changedAssets and assetRequests; a pass run
\* after a successful one with nothing changed in between dispatches nothing
\* for a node that was complete and ends with empty changedAssets.
C8_IdempotentSkip ==
  /\ pc = "constructed" => (changedAssets = {} /\ assetRequests = <<>>)
  /\ (pass > 1 /\ prev.ended = "returned" /\ ~prev.changed) =>
       /\ \A u \in Units : units[u].node \notin complete0
       /\ changedAssets = {}
       /\ pc = "returned" => result.changedAssets = {}

\* the second pass over an unchanged graph has returned, the first one having
\* produced assets
C8_Witness ==
  /\ pass = 2
  /\ pc = "returned"
  /\ prev.ended = "returned"
  /\ ~prev.changed
  /\ {"G1", "G2"} \subseteq complete0
  /\ {"G1", "A1", "D1", "G2"} \subseteq visited

\* C9: the step in which a request fails changes no edge, no complete flag
\* and no recorded request; a node whose request fails is not complete and is
\* not skipped, so a later pass that reaches it dispatches its request again.
C9_FailureLeavesGraph ==
  /\ [][\A u \in Units :
          (u <= Len(units') /\ units[u].req = "inflight" /\ units'[u].req = "rejected")
            => UNCHANGED <<edges, complete, corrReq>>]_vars
  /\ [](\A n \in Nodes : outcome[n] = "fail" => (n \notin complete /\ ~shouldSkipRequest(n)))
  /\ [][(errors = <<>> /\ pc \in {"constructed", "draining"} /\ pc' # "diverged") =>
          \A n \in visited' \ visited :
            outcome[n] = "fail" => \E u \in NewUnits : units'[u].node = n]_vars

\* the request of a node that failed in the first pass is dispatched again in
\* the second
C9_Witness ==
  /\ pass = 2
  /\ prev.ended = "failed"
  /\ \E u \in Units : outcome[units[u].node] = "fail" /\ units[u].req = "inflight"

\* C10: in a pass with a root nothing is stored before the queue has drained,
\* and when build() has returned or thrown exactly one value is stored, the
\* graph with an empty changedAssets and an empty assetRequests.
C10_CommitOnceEmpty ==
  rooted =>
    /\ pc \in {"constructed", "draining"} => stored = <<>>
    /\ pc \in {"returned", "failed"} =>
         /\ stored = <<[assetGraph |-> "assetGraph", changedAssets |-> {},
                        assetRequests |-> <<>>]>>
         /\ drained

\* a failing pass that accumulated assets and asset requests has committed
C10_Witness ==
  /\ pc = "failed"
  /\ rooted
  /\ Len(stored) = 1
  /\ changedAssets # {}
  /\ assetRequests # <<>>

\* the request of unit u has begun executing: run*Request has called
\* api.runRequest
requestBegun(u) == units[u].req \in {"inflight", "resolved", "rejected"}

\* the requests executing at this moment
executing == {u \in Units : units[u].req = "inflight"}

\* C11: every dispatched request is submitted to the queue as a unit, and the
\* request's execution has not begun while its unit has been submitted but not
\* yet started by the queue.
C11_StartsAfterSubmitted ==
  \A u \in Units :
    /\ units[u].q \in {"queued", "started", "handled", "continued", "done"}
    /\ units[u].q = "queued" => ~requestBegun(u)

\* C12: at every moment of a pass the number of requests executing at once is
\* at most the queue's concurrency limit.
C12_BoundedConcurrency == Cardinality(executing) <= MaxConcurrent

\* C13: a rejected request always has its handler attached (its unit has been
\* started by the queue); when the pass is over errors has one entry per
\* failed request; and every unit submitted has run, whatever failed.
C13_NoFailureDropped ==
  /\ \A u \in Units : units[u].req = "rejected" => units[u].q # "queued"
  /\ finished =>
       /\ Len(errors) = Cardinality({u \in Units : units[u].req = "rejected"})
       /\ \A u \in Units : units[u].req = "rejected" => units[u].node \in SeqToSet(errors)
       /\ \A u \in Units : units[u].q = "done"

\* the asset groups whose transform was dispatched in this pass and produced
\* assets
transformed ==
  {units[u].node : u \in {v \in Units : /\ NodeType[units[v].node] = "asset_group"
                                        /\ units[v].req = "resolved"
                                        /\ outcome[units[v].node] = "ok"}}

\* the asset_group nodes visit reached and skipped
skippedGroups ==
  {g \in visited : NodeType[g] = "asset_group" /\ \A u \in Units : units[u].node # g}

\* C14: when build() has returned, changedAssets holds exactly the assets the
\* transforms dispatched in this pass produced, it is what build() returns,
\* none of its assets comes from an asset group that was skipped, and each of
\* them is connected in the graph to its complete asset group.
C14_ChangedAssetsExact ==
  (finished /\ pc = "returned") =>
    /\ changedAssets = UNION {SeqToSet(Yield[g]) : g \in transformed}
    /\ result.changedAssets = changedAssets
    /\ \A g \in skippedGroups : SeqToSet(Yield[g]) \cap changedAssets = {}
    /\ \A a \in changedAssets :
         \E g \in transformed : a \in SeqToSet(edges[g]) /\ g \in complete

\* the second pass returned after it skipped G1, whose assets the first pass
\* had recorded, and transformed G2 again
C14_Witness ==
  /\ finished
  /\ pc = "returned"
  /\ pass = 2
  /\ "G1" \in skippedGroups
  /\ "G1" \in complete0
  /\ changedAssets = {"A2"}

\* the nodes of the units dispatched so far, in dispatch order
dispatchOrder == [i \in 1..Len(units) |-> units[i].node]

\* C15: assetRequests is, at every moment, the sequence of the asset groups
\* dispatched so far in dispatch order: the entry is there as soon as the
\* request is (while it executes, and after it failed), a skipped asset
\* group has none, and build() returns the list.
C15_NewWorkItems ==
  /\ assetRequests = SelectSeq(dispatchOrder, LAMBDA n : NodeType[n] = "asset_group")
  /\ \A g \in skippedGroups : g \notin SeqToSet(assetRequests)
  /\ pc = "returned" => result.assetRequests = assetRequests

\* the second pass failed on the transform of G2, which is in assetRequests,
\* after it skipped G1, which is not
C15_Witness ==
  /\ pc = "failed"
  /\ pass = 2
  /\ "G1" \in skippedGroups
  /\ \E u \in Units : units[u].node = "G2" /\ units[u].req = "rejected"
  /\ \E u \in Units : NodeType[units[u].node] = "dependency"
  /\ assetRequests = <<"G2">>

\* unit u is the request of a dependency whose path resolution found nothing
unresolved(u) ==
  /\ NodeType[units[u].node] = "dependency"
  /\ units[u].req # "inflight"
  /\ outcome[units[u].node] = "null"

\* C16: when path resolution of a dependency yields no match the request
\* resolves, resolveDependency is applied with the absent result (the node is
\* complete, has its request recorded and no children) and errors is left
\* alone; the continuation of that request visits and dispatches nothing; and
\* the pass returns unless some request failed.
C16_UnresolvedIsNoError ==
  /\ [][\A u \in Units :
          (/\ u <= Len(units')
           /\ NodeType[units[u].node] = "dependency"
           /\ units[u].req = "inflight"
           /\ units'[u].req # "inflight"
           /\ outcome'[units[u].node] = "null") =>
             /\ units'[u].req = "resolved"
             /\ units[u].node \in complete' \cap corrReq'
             /\ edges'[units[u].node] = <<>>
             /\ errors' = errors]_vars
  /\ [][\A u \in Units :
          (/\ u <= Len(units')
           /\ unresolved(u)
           /\ units[u].q = "handled"
           /\ units'[u].q = "continued") =>
             /\ visited' = visited
             /\ Len(units') = Len(units)]_vars
  /\ [](\A u \in Units : unresolved(u) =>
          /\ units[u].req = "resolved"
          /\ units[u].node \notin SeqToSet(errors)
          /\ ~changed => edges[units[u].node] = <<>>)
  /\ []((finished /\ \A u \in Units : units[u].req # "rejected") =>
          (pc = "returned" /\ errors = <<>>))

\* build() returned after the path resolution of D2 found nothing, the
\* transform of G1 having recorded its asset
C16_Witness ==
  /\ finished
  /\ pc = "returned"
  /\ \E u \in Units : units[u].node = "D2" /\ unresolved(u) /\ units[u].q = "done"
  /\ "D2" \in complete
  /\ edges["D2"] = <<>>
  /\ "A1" \in changedAssets

\* this step applies a resolution operation: the request of unit u resolves
resolves(u) ==
  /\ u <= Len(units')
  /\ units[u].req = "inflight"
  /\ units'[u].req = "resolved"

\* the nodes whose edges the resolution operation of node n sets
resolvedBy(n) ==
  {n} \cup (IF NodeType[n] = "asset_group" THEN SeqToSet(Yield[n]) ELSE {})

\* this step changes the graph's edges, complete flags or recorded requests
graphChanges ==
  edges' # edges \/ complete' # complete \/ corrReq' # corrReq

\* this step is taken by the environment between two passes
environmentStep == changed' /\ ~changed

\* this step constructs the builder, whose setRootConnections connects the
\* root to the entries or seed asset groups and touches nothing else
setsRootConnections ==
  /\ pc' = "constructed"
  /\ pc # "constructed"
  /\ complete' = complete
  /\ corrReq' = corrReq
  /\ \A n \in Nodes \ {"root"} : edges'[n] = edges[n]
  /\ edges'["root"] \in {edges["root"], RootConnections(input)}

\* C17: a step of the builder changes the graph only when it applies a
\* resolution operation, which sets the edges of the resolved node (and of
\* the assets of a resolved asset group) and only adds to the complete flags
\* and recorded requests, or when it constructs the builder, which sets the
\* root's connections; deferral marks and the gate are never changed.
C17_GraphMutatedByResolveAndRoot ==
  /\ [][(graphChanges /\ ~environmentStep) =>
          \/ setsRootConnections
          \/ \E u \in Units :
               /\ resolves(u)
               /\ \A m \in Nodes : edges'[m] # edges[m] => m \in resolvedBy(units[u].node)
               /\ complete' \ complete \subseteq {units[u].node}
               /\ corrReq' \ corrReq \subseteq {units[u].node}
               /\ complete \subseteq complete'
               /\ corrReq \subseteq corrReq']_vars
  /\ [][UNCHANGED <<hasDeferred, gated>>]_vars

\* C17 as stated: constructing the builder and every step of build() other
\* than a resolution operation leave the graph's nodes and edges unchanged.
C17_OnlyResolveOps ==
  [][(graphChanges /\ ~environmentStep) => \E u \in Units : resolves(u)]_vars

\* the builder of a second pass has been constructed on the graph the first
\* pass resolved
C17_Witness ==
  /\ pc = "constructed"
  /\ pass = 2
  /\ edges["root"] = RootConnections(input)
  /\ edges["root"] # <<>>
  /\ edges["G1"] = <<"A1">>
  /\ "G1" \in complete

\* C18: on a graph without a root the only step build() takes is to throw
\* "A root node is required to traverse": nothing is visited or dispatched,
\* no unit is submitted to the queue, nothing is stored, no error is
\* collected and the graph is left as it was.
C18_MissingRootFatal ==
  /\ [][(input = "noroot" /\ pc = "constructed") =>
          /\ pc' = "failed"
          /\ result' = [kind |-> "threw", error |-> "A root node is required to traverse"]
          /\ UNCHANGED <<edges, complete, corrReq, visited, units, queue, stored, errors>>]_vars
  /\ [](input = "noroot" =>
          /\ pc \in {"idle", "constructed", "failed"}
          /\ units = <<>> /\ queue = <<>> /\ assetRequests = <<>>
          /\ visited = {} /\ errors = <<>>
          /\ stored = <<>>
          /\ complete = {} /\ corrReq = {})

\* build() has thrown for the second time on a graph without a root
C18_Witness ==
  /\ input = "noroot"
  /\ pc = "failed"
  /\ pass = 2
  /\ result = [kind |-> "threw", error |-> "A root node is required to traverse"]

\* this step runs visitChildren(n): build() visits the root, which has no
\* request, or the continuation of a settled unit of node n runs
runsVisitChildren(n) ==
  \/ n = "root" /\ pc = "constructed" /\ pc' = "draining"
  \/ \E u \in Units : /\ u <= Len(units')
                      /\ units[u].node = n
                      /\ units[u].q = "handled"
                      /\ units'[u].q = "continued"

\* visitChildren(n) passes child c on to visit
passesGate(n, c) ==
  (c \notin visited \/ c \in hasDeferred) /\ shouldVisitChild(n, c)

\* C19: when visitChildren(n) runs, every child that is unvisited or has a
\* pending deferral and that the gate allows is in visited afterwards; a node
\* enters visited only over an edge the gate allows; when every child of n is
\* refused by the gate or is visited without pending deferral, nothing is
\* visited or dispatched; and a node already visited is dispatched again only
\* if it has a pending deferral.
C19_VisitedSetGating ==
  /\ [][\A n \in Nodes : runsVisitChildren(n) =>
          /\ \A c \in SeqToSet(edges[n]) : passesGate(n, c) => c \in visited'
          /\ (\A c \in SeqToSet(edges[n]) : ~passesGate(n, c)) =>
               /\ visited' \ {"root"} = visited \ {"root"}
               /\ Len(units') = Len(units)
          /\ \A c \in (visited' \ visited) \ {"root"} :
               \E p \in visited' : c \in SeqToSet(edges[p]) /\ shouldVisitChild(p, c)
          /\ \A v \in NewUnits :
               units'[v].node \in visited => units'[v].node \in hasDeferred]_vars
  /\ [](\A u, v \in Units :
          (u # v /\ units[u].node = units[v].node) => units[u].node \in hasDeferred)
  /\ [](\A u \in Units : units[u].node \in visited)

\* the gate refused G2 as a child of D1, whose continuation has run, and G2
\* was visited and dispatched as a child of D2
C19_Witness ==
  /\ <<"D1", "G2">> \in gated
  /\ \E u \in Units : units[u].node = "D1" /\ units[u].q \in {"continued", "done"}
  /\ \E u \in Units : /\ units[u].node = "G2"
                      /\ units[u].by # 0
                      /\ units[units[u].by].node = "D2"
  /\ "G2" \in visited

\* C20: within one build() no node has its request dispatched more than once,
\* and assetRequests never holds the same asset group twice.
C20_OneDispatchPerNode ==
  /\ \A u, v \in Units : units[u].node = units[v].node => u = v
  /\ \A i, j \in 1..Len(assetRequests) : assetRequests[i] = assetRequests[j] => i = j

====
